---------------------------- MODULE Spec2Model ----------------------------
(***************************************************************************)
(* ProFIT: process-model discovery from an event log.                      *)
(*                                                                         *)
(* Model of Log.transit_matrix (src/Log.py) and of Graph (src/profit/      *)
(* graph.py): update, optimize, aggregate, find_nodes_order, find_cycles,  *)
(* find_states, fitness and replayability_score.                           *)
(*                                                                         *)
(* Encoding of Python values.                                              *)
(*   - An activity label (a Python str) "x" is the one-element sequence    *)
(*     <<"x">>; a meta-state (a Python tuple of labels) ('x','y') is the   *)
(*     sequence <<"x","y">>.  Meta-states always have length > 1           *)
(*     (find_states keeps a cycle only if len(c) > 1), so                  *)
(*     type(e) == tuple is Len(e) > 1 and type(e) == str is Len(e) = 1.    *)
(*   - A trace is a sequence of activities; log.flat_log is the sequence   *)
(*     of traces in dict insertion order, case ids being 1..Len(flat_log); *)
(*     log.cases is 1..Len(flat_log).                                      *)
(*   - A dict is a function; where its iteration order is read by the code *)
(*     (self.nodes, the cycles dict) it is a sequence of <<key, value>>    *)
(*     items in insertion order.                                           *)
(*   - A float is an exact rational <<numerator, denominator>> with a      *)
(*     positive denominator.                                               *)
(***************************************************************************)
EXTENDS Integers, Sequences, FiniteSets, TLC

VARIABLES
    flat_log,   \* log.flat_log: the traces, in case order
    nodes,      \* self.nodes: items <<activity, <<frequency, case count>>>>
    edges,      \* self.edges: function (source, target) -> <<abs, cases>>
    call,       \* the operation last called and its arguments
    ret,        \* what that operation returned (or the error it raised)
    locals,     \* the local variables of an operation under way
    oracle      \* the outcome of the helpers of update that graph.py imports

vars == <<flat_log, nodes, edges, call, ret, locals, oracle>>

\* ------------------------------------------------------------------ bounds

\* Activity labels of the logs explored.
Labels == {"x", "y"}

\* Most cases in a log.
MaxCases == 2

\* Most events in a log, over all its cases.
MaxEvents == 6

\* ----------------------------------------------------------------- helpers

Str(l) == <<l>>

IsTuple(a) == Len(a) > 1

START == Str("start")

END == Str("end")

Range(s) == {s[i] : i \in DOMAIN s}

Min2(a, b) == IF a <= b THEN a ELSE b

RECURSIVE SumOver(_, _)
SumOver(S, f) ==
    IF S = {} THEN 0
    ELSE LET e == CHOOSE e \in S : TRUE IN f[e] + SumOver(S \ {e}, f)

\* The traces of exactly k events over the labels.
TracesOfLen(k) == [1..k -> {Str(l) : l \in Labels}]

\* The logs of at most c cases and n events in all, every trace non-empty.
RECURSIVE LogsWithin(_, _)
LogsWithin(c, n) ==
    IF c = 0 \/ n = 0 THEN {<<>>}
    ELSE {<<>>} \cup
         UNION {{<<t>> \o l : t \in TracesOfLen(k), l \in LogsWithin(c - 1, n - k)}
                : k \in 1..n}

Logs == LogsWithin(MaxCases, MaxEvents) \ {<<>>}

\* log.cases and log.activities of a log.
Cases(log) == DOMAIN log

Activities(log) == UNION {Range(log[c]) : c \in DOMAIN log}

\* --------------------------------------------------- Log.transit_matrix

\* One adjacency of the scan (Log.py lines 18-29): the pair is entered in T
\* and to_add when new, its absolute count goes up, and its case count goes
\* up when to_add says the pair was not yet seen in this case.
ScanStep(st, a_i, a_j) ==
    LET p == <<a_i, a_j>>
        T0 == IF p \in DOMAIN st.T THEN st.T ELSE st.T @@ (p :> <<0, 0>>)
        A0 == IF p \in DOMAIN st.T THEN st.to_add ELSE st.to_add @@ (p :> TRUE)
        T1 == [T0 EXCEPT ![p] = <<@[1] + 1, @[2]>>]
    IN IF A0[p]
       THEN [T |-> [T1 EXCEPT ![p] = <<@[1], @[2] + 1>>],
             to_add |-> [A0 EXCEPT ![p] = FALSE]]
       ELSE [T |-> T1, to_add |-> A0]

\* The scan of one case from adjacency i on (Log.py line 17).
RECURSIVE ScanCase(_, _, _)
ScanCase(st, trace, i) ==
    IF i > Len(trace) - 1 THEN st
    ELSE ScanCase(ScanStep(st, trace[i], trace[i + 1]), trace, i + 1)

\* The to_add flags left as the case set them.
ResetToAdd_never(st) == st

\* After a case every to_add flag is set again (Log.py lines 30-32).
ResetToAdd(st) ==
    [T |-> st.T, to_add |-> [p \in DOMAIN st.to_add |-> TRUE]]

\* The loop over the cases, from case c on (Log.py line 16).
RECURSIVE ScanLog(_, _, _)
ScanLog(st, log, c) ==
    IF c > Len(log) THEN st
    ELSE ScanLog(ResetToAdd(ScanCase(st, log[c], 1)), log, c + 1)

\* Log.transit_matrix: the table keyed by (a_i, a_j).
EmptyDict == [p \in {} |-> <<0, 0>>]

transit_matrix(log) ==
    ScanLog([T |-> EmptyDict, to_add |-> EmptyDict], log, 1).T

\* What the table is said to hold: the adjacent pairs of the log, and for a
\* pair its occurrences over all traces and the cases it occurs in.
AdjacentAt(trace, p) ==
    {i \in 1..(Len(trace) - 1) : <<trace[i], trace[i + 1]>> = p}

AdjacentPairs(log) ==
    UNION {{<<log[c][i], log[c][i + 1]>> : i \in 1..(Len(log[c]) - 1)}
           : c \in DOMAIN log}

AbsoluteCount(log, p) ==
    SumOver(DOMAIN log, [c \in DOMAIN log |-> Cardinality(AdjacentAt(log[c], p))])

CaseCount(log, p) ==
    Cardinality({c \in DOMAIN log : AdjacentAt(log[c], p) # {}})

\* --------------------------------------------- specification: the table

InitTM ==
    /\ flat_log \in Logs
    /\ nodes = <<>>
    /\ edges = EmptyDict
    /\ call = <<"init">>
    /\ ret = <<>>
    /\ locals = <<>>
    /\ oracle = <<>>

CallTransitMatrix ==
    /\ call = <<"init">>
    /\ call' = <<"transit_matrix">>
    /\ ret' = transit_matrix(flat_log)
    /\ UNCHANGED <<flat_log, nodes, edges, locals, oracle>>

NextTM == CallTransitMatrix

SpecTM == InitTM /\ [][NextTM]_vars

\* C4: Log.transit_matrix returns a table whose keys are exactly the pairs
\* adjacent in some trace, each with (occurrences over all traces, cases the
\* pair occurs in), so 1 <= case count <= absolute count and
\* case count <= |cases|.
C4_TransitMatrixCounts ==
    call = <<"transit_matrix">> =>
        /\ DOMAIN ret = AdjacentPairs(flat_log)
        /\ \A p \in DOMAIN ret :
              /\ ret[p] = <<AbsoluteCount(flat_log, p), CaseCount(flat_log, p)>>
              /\ 1 <= ret[p][2]
              /\ ret[p][2] <= ret[p][1]
              /\ ret[p][2] <= Cardinality(Cases(flat_log))

\* A pair that recurs inside one case and occurs in a second case too: the
\* absolute count exceeds the case count, which exceeds 1.
C4_Witness ==
    /\ call = <<"transit_matrix">>
    /\ \E p \in DOMAIN ret : ret[p][1] > ret[p][2] /\ ret[p][2] > 1


\* ------------------------------------------------------ dicts kept in order

\* A dict whose iteration order the code reads: its items in insertion order.
Keys(d) == [i \in DOMAIN d |-> d[i][1]]

KeySet(d) == {d[i][1] : i \in DOMAIN d}

Has(d, k) == k \in KeySet(d)

Get(d, k) == d[CHOOSE i \in DOMAIN d : d[i][1] = k][2]

\* d[k] = v: in place when k is a key, appended when it is new.
Put(d, k, v) ==
    IF Has(d, k)
    THEN [i \in DOMAIN d |-> IF d[i][1] = k THEN <<k, v>> ELSE d[i]]
    ELSE Append(d, <<k, v>>)

\* list.index(x), 0-based; -1 stands for the ValueError of an absent x.
Index(s, x) ==
    IF x \in Range(s) THEN (CHOOSE i \in DOMAIN s : s[i] = x /\ \A j \in 1..(i - 1) : s[j] # x) - 1
    ELSE -1

\* ------------------------------------------------- Graph.find_nodes_order

\* incidence_matrix(self.edges): the successors of a node.  The order in
\* which they are listed is not fixed by graph.py, so every order is taken.
Successors(E, n) == {e[2] : e \in {d \in DOMAIN E : d[1] = n}}

\* preorder_traversal(start_node), given ordered_nodes so far: the set of
\* the ordered_nodes lists it can leave, one per order of the successors.
RECURSIVE preorder_traversal(_, _, _), VisitSuccessors(_, _, _)
preorder_traversal(E, start_node, ordered_nodes) ==
    VisitSuccessors(E, Successors(E, start_node), Append(ordered_nodes, start_node))

VisitSuccessors(E, todo, ordered_nodes) ==
    IF todo = {} THEN {ordered_nodes}
    ELSE UNION {
           LET after == IF successor \in Range(ordered_nodes)
                        THEN {ordered_nodes}
                        ELSE preorder_traversal(E, successor, ordered_nodes)
           IN UNION {VisitSuccessors(E, todo \ {successor}, o) : o \in after}
           : successor \in todo}

\* Graph.find_nodes_order: the lists it can return.
find_nodes_order(E) == preorder_traversal(E, START, <<>>)

\* ------------------------------------------------------ Graph.find_cycles

\* Python's case_log[s:f] for 0-based s < f.
Slice(case_log, s, f) == SubSeq(case_log, s + 1, f)

\* bad_edges (lines 258-259): the 0-based positions, ascending, whose
\* transition is not an edge of the graph.
RECURSIVE BadEdgesFrom(_, _, _)
BadEdgesFrom(case_log, E, i) ==
    IF i > Len(case_log) - 2 THEN <<>>
    ELSE (IF <<case_log[i + 1], case_log[i + 2]>> \notin DOMAIN E THEN <<i>> ELSE <<>>)
         \o BadEdgesFrom(case_log, E, i + 1)

bad_edges(case_log, E) == BadEdgesFrom(case_log, E, 0)

\* check_edges with the bad index at s_ind itself let through.
RECURSIVE check_edges_strict(_, _, _)
check_edges_strict(bad_edges_inds, s_ind, f_ind) ==
    IF bad_edges_inds = <<>> THEN TRUE
    ELSE IF Head(bad_edges_inds) >= f_ind THEN TRUE
    ELSE IF s_ind < Head(bad_edges_inds) THEN FALSE
    ELSE check_edges_strict(Tail(bad_edges_inds), s_ind, f_ind)

\* check_edges (lines 248-254).
RECURSIVE check_edges(_, _, _)
check_edges(bad_edges_inds, s_ind, f_ind) ==
    IF bad_edges_inds = <<>> THEN TRUE
    ELSE IF Head(bad_edges_inds) >= f_ind THEN TRUE
    ELSE IF s_ind <= Head(bad_edges_inds) THEN FALSE
    ELSE check_edges(Tail(bad_edges_inds), s_ind, f_ind)

\* case_indices (line 263): the 0-based positions of node, ascending.
RECURSIVE CaseIndicesFrom(_, _, _)
CaseIndicesFrom(case_log, node, i) ==
    IF i > Len(case_log) - 1 THEN <<>>
    ELSE (IF case_log[i + 1] = node THEN <<i>> ELSE <<>>)
         \o CaseIndicesFrom(case_log, node, i + 1)

case_indices(case_log, node) == CaseIndicesFrom(case_log, node, 0)

\* Lines 268: whether case_log[s_i:f_i] is counted.
IsCycle(case_log, bad, s_i, f_i) ==
    /\ f_i - s_i = Cardinality(Range(Slice(case_log, s_i, f_i)))
    /\ check_edges(bad, s_i, f_i)

\* Lines 270-277: one counted occurrence of cycle.
CountCycle(st, cycle) ==
    LET c1 == IF ~Has(st.cycles, cycle)
              THEN Put(st.cycles, cycle, <<1, 0>>)
              ELSE Put(st.cycles, cycle,
                       <<Get(st.cycles, cycle)[1] + 1, Get(st.cycles, cycle)[2]>>)
    IN IF cycle \notin st.case_cycles
       THEN [cycles |-> Put(c1, cycle, <<Get(c1, cycle)[1], Get(c1, cycle)[2] + 1>>),
             case_cycles |-> st.case_cycles \cup {cycle}]
       ELSE [cycles |-> c1, case_cycles |-> st.case_cycles]

\* Line 265: the consecutive occurrences of one node, from the k-th on.
RECURSIVE ScanOccurrences(_, _, _, _, _)
ScanOccurrences(st, case_log, bad, inds, k) ==
    IF k > Len(inds) - 1 THEN st
    ELSE LET s_i == inds[k]
             f_i == inds[k + 1]
             st1 == IF IsCycle(case_log, bad, s_i, f_i)
                    THEN CountCycle(st, Slice(case_log, s_i, f_i))
                    ELSE st
         IN ScanOccurrences(st1, case_log, bad, inds, k + 1)

\* Line 262: the nodes of the graph, in dict order, from the n-th on.
RECURSIVE ScanNodes(_, _, _, _, _, _)
ScanNodes(st, case_log, bad, N, E, n) ==
    IF n > Len(N) THEN st
    ELSE ScanNodes(ScanOccurrences(st, case_log, bad,
                                   case_indices(case_log, N[n][1]), 1),
                   case_log, bad, N, E, n + 1)

\* Line 257: the cases, from case c on; case_cycles starts empty in each.
RECURSIVE ScanCases(_, _, _, _, _)
ScanCases(cycles, log, N, E, c) ==
    IF c > Len(log) THEN cycles
    ELSE ScanCases(ScanNodes([cycles |-> cycles, case_cycles |-> {}],
                             log[c], bad_edges(log[c], E), N, E, 1).cycles,
                   log, N, E, c + 1)

\* Lines 256-277: the cycles dict before any merge of rotations.
RawCycles(log, N, E) == ScanCases(<<>>, log, N, E, 1)

\* The cycle alone, none of its other rotations.
Rotations_self(cycle) == <<cycle>>

\* Lines 287-288: the rotations of a cycle, the cycle itself first.
Rotations(cycle) ==
    [i \in 1..Len(cycle) |->
        SubSeq(cycle, i, Len(cycle)) \o SubSeq(cycle, 1, i - 1)]

\* Lines 293-294: the counts of the rotations that are keys of cycles.
RECURSIVE SumRotations(_, _, _)
SumRotations(cycles, cycle_seq, k) ==
    IF k > Len(cycle_seq) THEN <<0, 0>>
    ELSE LET rest == SumRotations(cycles, cycle_seq, k + 1)
             c == cycle_seq[k]
         IN IF Has(cycles, c)
            THEN <<Get(cycles, c)[1] + rest[1], Get(cycles, c)[2] + rest[2]>>
            ELSE rest

\* Lines 290-291: the rotation whose first activity comes first in
\* ordered_nodes (no two rotations of a cycle start with the same activity).
MinRotation(cycle_seq, ordered_nodes) ==
    CHOOSE c \in Range(cycle_seq) :
        \A d \in Range(cycle_seq) :
            Index(ordered_nodes, c[1]) <= Index(ordered_nodes, d[1])

\* Lines 285-296, from the k-th key of cycles on.  st.err is set when
\* ordered_nodes.index raises ValueError (line 290).
RECURSIVE MergeFrom(_, _, _, _, _)
MergeFrom(st, cycles, pre_traverse, ordered_nodes, k) ==
    IF k > Len(cycles) \/ st.err THEN st
    ELSE LET cycle0 == cycles[k][1]
             cycle_seq == Rotations(cycle0)
             missing == pre_traverse /\
                        \E c \in Range(cycle_seq) : Index(ordered_nodes, c[1]) = -1
             cycle == IF pre_traverse THEN MinRotation(cycle_seq, ordered_nodes)
                      ELSE cycle0
         IN IF cycle0 \in st.left
            THEN MergeFrom(st, cycles, pre_traverse, ordered_nodes, k + 1)
            ELSE IF missing
            THEN [st EXCEPT !.err = TRUE]
            ELSE MergeFrom([sum_cycles |-> Put(st.sum_cycles, cycle,
                                               SumRotations(cycles, cycle_seq, 1)),
                            left |-> st.left \cup Range(cycle_seq),
                            err |-> FALSE],
                           cycles, pre_traverse, ordered_nodes, k + 1)

\* Graph.find_cycles, given the list find_nodes_order returned (read only
\* when pre_traverse): the cycles dict, or ValueError.
find_cycles(log, N, E, pre_traverse, ordered, ordered_nodes) ==
    LET cycles == RawCycles(log, N, E)
        merged == MergeFrom([sum_cycles |-> <<>>, left |-> {}, err |-> FALSE],
                            cycles, pre_traverse, ordered_nodes, 1)
    IN IF ordered THEN [err |-> "", cycles |-> cycles]
       ELSE IF merged.err THEN [err |-> "ValueError", cycles |-> <<>>]
       ELSE [err |-> "", cycles |-> merged.sum_cycles]


\* ------------------------------------------------ the table with start/end

\* The transition table update reads (TransitionMatrix and
\* util_pm.transit_matrix): the scan of Log.transit_matrix over every trace
\* bounded by the virtual activities 'start' and 'end'.
TransitionTable(log) ==
    transit_matrix([c \in DOMAIN log |-> <<START>> \o log[c] \o <<END>>])

\* node_significance: the cases an activity occurs in (as a count; the
\* significance is this count over len(log.cases)).
CasesWith(log, a) == Cardinality({c \in DOMAIN log : a \in Range(log[c])})

\* Lines 94-95: the value update gives node a.
NodeValue(log, T, a) ==
    <<SumOver({p \in DOMAIN T : p[1] = a}, [p \in DOMAIN T |-> T[p][1]]),
      CasesWith(log, a)>>

\* Lines 96-99: the value update gives an edge: T's, or (0, 0) for an
\* "imaginary" edge.
EdgeValue(T, t) == IF t \in DOMAIN T THEN T[t] ELSE <<0, 0>>

\* self.nodes and self.edges as update leaves them for the retained
\* activities N (a list without repeats) and the retained transitions.
NodesDict(log, T, N) == [i \in DOMAIN N |-> <<N[i], NodeValue(log, T, N[i])>>]

EdgesDict(T, transitions) == [t \in transitions |-> EdgeValue(T, t)]

\* The lists without repeats over the subsets of S.
Lists(S) ==
    UNION {{l \in [1..Cardinality(A) -> A] : Range(l) = A} : A \in SUBSET S}

\* The transitions of the table between two activities of N.
InnerTransitions(N, T) ==
    {p \in DOMAIN T : p[1] \in Range(N) /\ p[2] \in Range(N)}

\* The graphs explored for a log, as update leaves them: any retained
\* activities of the log in any dict order, any of the log's transitions
\* between them (the others filtered out), and the log's transitions from
\* 'start' to them and from them to 'end'.
Transitions(N, T, inner) ==
    inner \cup {p \in DOMAIN T : /\ p[1] \in Range(N) \cup {START}
                                 /\ p[2] \in Range(N) \cup {END}
                                 /\ (p[1] = START \/ p[2] = END)}

\* ------------------------------------------- specification: the cycles

InitCyc ==
    /\ flat_log \in Logs
    /\ \E T \in {TransitionTable(flat_log)}, N \in Lists(Activities(flat_log)) :
         \E inner \in SUBSET InnerTransitions(N, T) :
            /\ nodes = NodesDict(flat_log, T, N)
            /\ edges = EdgesDict(T, Transitions(N, T, inner))
    /\ call = <<"init">>
    /\ ret = <<>>
    /\ locals = <<>>
    /\ oracle = <<>>

CallFindCycles ==
    /\ call = <<"init">>
    /\ \E pre_traverse \in BOOLEAN, ordered \in BOOLEAN :
         \E ordered_nodes \in (IF pre_traverse THEN find_nodes_order(edges) ELSE {<<>>}) :
            /\ call' = <<"find_cycles", pre_traverse, ordered>>
            /\ ret' = find_cycles(flat_log, nodes, edges, pre_traverse, ordered,
                                  ordered_nodes)
    /\ UNCHANGED <<flat_log, nodes, edges, locals, oracle>>

NextCyc == CallFindCycles

SpecCyc == InitCyc /\ [][NextCyc]_vars


\* Whether b is a rotation of a.
IsRotation(a, b) ==
    /\ Len(a) = Len(b)
    /\ \E k \in 0..(Len(a) - 1) :
          \A i \in 1..Len(a) : b[i] = a[((i - 1 + k) % Len(a)) + 1]

\* The occurrences <<case, s, f>> (0-based s < f) of a cycle in the log, as
\* stated: s and f are consecutive positions of one retained node, no
\* activity repeats in trace[s:f], and every transition at s..f-1 is an edge.
CycleOccurrences(log, N, E) ==
    {o \in UNION {{<<c, s, f>> : s \in 0..(Len(log[c]) - 1), f \in 0..(Len(log[c]) - 1)}
                  : c \in DOMAIN log} :
        LET trace == log[o[1]]
            s == o[2]
            f == o[3]
        IN /\ s < f
           /\ trace[s + 1] \in KeySet(N)
           /\ trace[f + 1] = trace[s + 1]
           /\ \A i \in (s + 1)..(f - 1) : trace[i + 1] # trace[s + 1]
           /\ \A i \in s..(f - 1), j \in s..(f - 1) :
                 i # j => trace[i + 1] # trace[j + 1]
           /\ \A i \in s..(f - 1) : <<trace[i + 1], trace[i + 2]>> \in DOMAIN E}

OccurrencesOf(log, N, E, cycle) ==
    {o \in CycleOccurrences(log, N, E) : Slice(log[o[1]], o[2], o[3]) = cycle}

\* The counts stated for one cycle: its occurrences, the cases it occurs in.
StatedCounts(log, N, E, cycle) ==
    <<Cardinality(OccurrencesOf(log, N, E, cycle)),
      Cardinality({o[1] : o \in OccurrencesOf(log, N, E, cycle)})>>

StatedCycles(log, N, E) ==
    {Slice(log[o[1]], o[2], o[3]) : o \in CycleOccurrences(log, N, E)}

\* The sums of the stated counts over the rotations of cycle.
RotationSum(log, N, E, cycle, i) ==
    SumOver({r \in StatedCycles(log, N, E) : IsRotation(cycle, r)},
            [r \in StatedCycles(log, N, E) |-> StatedCounts(log, N, E, r)[i]])

Returned == call[1] = "find_cycles" /\ ret.err = ""

NoTwoRotations(d) ==
    \A i \in DOMAIN d, j \in DOMAIN d :
        IsRotation(d[i][1], d[j][1]) => i = j

\* C10: with ordered=True, trace[s:f] is counted as a cycle iff s and f are
\* consecutive positions of one retained node, no activity repeats in it and
\* every transition at positions s..f-1 is an edge; check_edges returns False
\* exactly when a bad transition index i has s <= i < f.
C10_OrderedCycles ==
    (Returned /\ call[3]) =>
        /\ KeySet(ret.cycles) = StatedCycles(flat_log, nodes, edges)
        /\ \A k \in DOMAIN ret.cycles :
              ret.cycles[k][2] = StatedCounts(flat_log, nodes, edges, ret.cycles[k][1])
        /\ \A c \in DOMAIN flat_log :
              \A s \in 0..(Len(flat_log[c]) - 1), f \in 0..(Len(flat_log[c]) - 1) :
                 s < f =>
                    (check_edges(bad_edges(flat_log[c], edges), s, f)
                       <=> ~\E i \in Range(bad_edges(flat_log[c], edges)) :
                               s <= i /\ i < f)

\* One sub-sequence between consecutive occurrences is counted while another,
\* free of repeats, is not because a transition inside it is not an edge.
C10_Witness ==
    /\ Returned /\ call[3]
    /\ ret.cycles # <<>>
    /\ \E c \in DOMAIN flat_log :
          \E s \in 0..(Len(flat_log[c]) - 1), f \in 0..(Len(flat_log[c]) - 1) :
             /\ s < f
             /\ flat_log[c][s + 1] \in KeySet(nodes)
             /\ flat_log[c][f + 1] = flat_log[c][s + 1]
             /\ f - s = Cardinality(Range(Slice(flat_log[c], s, f)))
             /\ ~check_edges(bad_edges(flat_log[c], edges), s, f)
             /\ Slice(flat_log[c], s, f) \notin KeySet(ret.cycles)

\* C2 (as stated): in the result of find_cycles, with ordered=True as with
\* ordered=False, all rotations of a cyclic sequence are one entry whose
\* counts are the sums over the rotation variants found in the log.
C2_RotationsCollapseAlways ==
    Returned =>
        /\ NoTwoRotations(ret.cycles)
        /\ \A r \in StatedCycles(flat_log, nodes, edges) :
              \E k \in DOMAIN ret.cycles : IsRotation(r, ret.cycles[k][1])
        /\ \A k \in DOMAIN ret.cycles :
              ret.cycles[k][2] =
                 <<RotationSum(flat_log, nodes, edges, ret.cycles[k][1], 1),
                   RotationSum(flat_log, nodes, edges, ret.cycles[k][1], 2)>>

\* C2 (amended): when find_cycles returns with ordered=False, for either
\* pre_traverse, all rotations of a cyclic sequence found in the log are one
\* entry whose counts are the sums over the rotation variants found; with
\* ordered=True every rotation variant found is an entry of its own, with
\* its own counts.
C2_RotationsCollapseUnordered ==
    Returned =>
        IF call[3]
        THEN /\ KeySet(ret.cycles) = StatedCycles(flat_log, nodes, edges)
             /\ \A k \in DOMAIN ret.cycles :
                   ret.cycles[k][2] =
                      StatedCounts(flat_log, nodes, edges, ret.cycles[k][1])
        ELSE /\ NoTwoRotations(ret.cycles)
             /\ \A r \in StatedCycles(flat_log, nodes, edges) :
                   \E k \in DOMAIN ret.cycles : IsRotation(r, ret.cycles[k][1])
             /\ \A k \in DOMAIN ret.cycles :
                   /\ \E r \in StatedCycles(flat_log, nodes, edges) :
                         IsRotation(r, ret.cycles[k][1])
                   /\ ret.cycles[k][2] =
                         <<RotationSum(flat_log, nodes, edges, ret.cycles[k][1], 1),
                           RotationSum(flat_log, nodes, edges, ret.cycles[k][1], 2)>>

\* With ordered=False and the traversal order in use, two rotation variants
\* found in the log are returned as one entry.
C2_Witness ==
    /\ Returned /\ ~call[3] /\ call[2]
    /\ \E r1 \in StatedCycles(flat_log, nodes, edges),
          r2 \in StatedCycles(flat_log, nodes, edges) :
          r1 # r2 /\ IsRotation(r1, r2)
    /\ Len(ret.cycles) = 1

\* C3: for the cases (x,y,x,y) and (x,y) and the graph with nodes {x, y} and
\* edges (start,x), (x,y), (y,x), (y,end), find_cycles with default arguments
\* returns the single cycle (x,y) with absolute frequency 1 and distinct-case
\* frequency 1.
X == Str("x")

Y == Str("y")

C3_Scenario ==
    /\ flat_log = <<(<<X, Y, X, Y>>), (<<X, Y>>)>>
    /\ KeySet(nodes) = {X, Y}
    /\ DOMAIN edges = {<<START, X>>, <<X, Y>>, <<Y, X>>, <<Y, END>>}
    /\ call = <<"find_cycles", FALSE, FALSE>>

C3_SingleCycleOnce ==
    C3_Scenario =>
        /\ ret.err = ""
        /\ Len(ret.cycles) = 1
        /\ IsRotation(<<X, Y>>, ret.cycles[1][1])
        /\ ret.cycles[1][2] = <<1, 1>>

\* C11: for every cycle entry find_cycles returns, with ordered=True and with
\* ordered=False, the distinct-case frequency counts each case at most once:
\* it exceeds neither the number of cases of the log nor the entry's absolute
\* frequency.
C11_CaseFrequencyBounded ==
    Returned =>
        \A i \in DOMAIN ret.cycles :
            /\ ret.cycles[i][2][2] <= Cardinality(Cases(flat_log))
            /\ ret.cycles[i][2][2] <= ret.cycles[i][2][1]


\* ------------------------------------------------------------ rationals

Abs(n) == IF n < 0 THEN -n ELSE n

RECURSIVE GCD(_, _)
GCD(a, b) == IF b = 0 THEN a ELSE GCD(b, a % b)

\* The rational n/d (d > 0) in lowest terms.
Rat(n, d) == LET g == GCD(Abs(n), d) IN <<n \div g, d \div g>>

RAdd(p, q) == Rat(p[1] * q[2] + q[1] * p[2], p[2] * q[2])

RSub(p, q) == Rat(p[1] * q[2] - q[1] * p[2], p[2] * q[2])

RMul(p, q) == Rat(p[1] * q[1], p[2] * q[2])

\* p / k for an integer k > 0.
RDivInt(p, k) == Rat(p[1], p[2] * k)

RAbs(p) == <<Abs(p[1]), p[2]>>

RLe(p, q) == p[1] * q[2] <= q[1] * p[2]

RECURSIVE RSum(_, _)
RSum(S, f) ==
    IF S = {} THEN Rat(0, 1)
    ELSE LET e == CHOOSE e \in S : TRUE IN RAdd(f[e], RSum(S \ {e}, f))

\* ------------------------------------------- Graph.replayability_score

\* is_replayed_element (lines 413-423) of an event: a str is looked up in
\* nodes, a tuple in edges (whose keys are (source, target) pairs, so that
\* a tuple of two labels is found when the edge between them exists).
is_replayed_event(N, E, element) ==
    IF ~IsTuple(element) THEN element \in KeySet(N)
    ELSE Len(element) = 2 /\ <<Str(element[1]), Str(element[2])>> \in DOMAIN E

\* is_replayed_element of the transition (actual_node, next_node).
is_replayed_transition(E, actual_node, next_node) ==
    <<actual_node, next_node>> \in DOMAIN E

\* Lines 428-434: the 1-based position of the first replayed event, 0 when
\* the trace has none.
RECURSIVE FirstReplayed(_, _, _, _)
FirstReplayed(N, E, trace, m) ==
    IF is_replayed_event(N, E, trace[m]) THEN m
    ELSE IF m < Len(trace) THEN FirstReplayed(N, E, trace, m + 1)
    ELSE 0

\* The position moved to every replayed event, its transition an edge or not.
ReplayStep_always(E, st, next_event, replayed) ==
    IF replayed
    THEN IF is_replayed_transition(E, st.actual_node, next_event)
         THEN [st EXCEPT !.z = @ + 1, !.actual_node = next_event]
         ELSE [st EXCEPT !.z = @ + 1, !.phi = @ + 1, !.actual_node = next_event]
    ELSE [st EXCEPT !.delta = 1]

\* Lines 440-449: one event after the replay start.
ReplayStep(E, st, next_event, replayed) ==
    IF replayed
    THEN IF is_replayed_transition(E, st.actual_node, next_event)
         THEN [st EXCEPT !.z = @ + 1, !.actual_node = next_event]
         ELSE [st EXCEPT !.z = @ + 1, !.phi = @ + 1]
    ELSE [st EXCEPT !.delta = 1]

\* Line 439: the events from the i-th on.
RECURSIVE ReplayFrom(_, _, _, _, _)
ReplayFrom(N, E, trace, st, i) ==
    IF i > Len(trace) THEN st
    ELSE ReplayFrom(N, E, trace,
                    ReplayStep(E, st, trace[i], is_replayed_event(N, E, trace[i])),
                    i + 1)

\* The score without its absolute value.
TraceScore_signed(z, delta, phi, trace_length, alpha, beta) ==
    RSub(RSub(Rat(z, trace_length), RMul(alpha, Rat(delta, 1))),
         RDivInt(RMul(beta, Rat(phi, 1)), trace_length))

\* Line 453: abs(z/trace_length - alpha*delta - beta*phi/trace_length).
TraceScore(z, delta, phi, trace_length, alpha, beta) ==
    RAbs(RSub(RSub(Rat(z, trace_length), RMul(alpha, Rat(delta, 1))),
              RDivInt(RMul(beta, Rat(phi, 1)), trace_length)))

\* trace_replayability_score (lines 425-454).
trace_replayability_score(N, E, trace, alpha, beta) ==
    LET m == FirstReplayed(N, E, trace, 1) IN
    IF m = 0 THEN Rat(0, 1)
    ELSE LET st == ReplayFrom(N, E, trace,
                              [z |-> 1, delta |-> 0, phi |-> 0,
                               actual_node |-> trace[m]],
                              m + 1)
         IN TraceScore(st.z, st.delta, st.phi, Len(trace), alpha, beta)

\* Lines 456-460: the mean of the scores of the traces.
replayability_score(log, N, E, alpha, beta) ==
    RDivInt(RSum(DOMAIN log,
                 [c \in DOMAIN log |->
                     trace_replayability_score(N, E, log[c], alpha, beta)]),
            Cardinality(Cases(log)))


\* ---------------------------------------------------------- Graph.fitness

\* ADS_matrix(log, T): a transition is 'A' when it occurs in every case,
\* 'S' when it occurs in some of the cases, 'N' when it occurs in none.
ADS_matrix(log, T, a_i, a_j) ==
    LET p == <<a_i, a_j>> IN
    IF p \notin DOMAIN T \/ T[p][2] = 0 THEN "N"
    ELSE IF T[p][2] = Cardinality(Cases(log)) THEN "A"
    ELSE "S"

\* len(str(case_cnt)) (line 344).
RECURSIVE Digits(_)
Digits(n) == IF n < 10 THEN 1 ELSE 1 + Digits(n \div 10)

RECURSIVE Pow10(_)
Pow10(k) == IF k = 0 THEN 1 ELSE 10 * Pow10(k - 1)

\* loss (lines 346-363).
loss(log, T, a_i, a_j) ==
    LET case_cnt == Cardinality(Cases(log))
        eps == Rat(1, Pow10(Digits(case_cnt)))
    IN IF ADS_matrix(log, T, a_i, a_j) = "A" THEN Rat(1, 1)
       ELSE IF ADS_matrix(log, T, a_i, a_j) = "S" THEN Rat(T[<<a_i, a_j>>][2], case_cnt)
       ELSE eps

\* The transitions inside a meta-state, its closing transition included
\* (lines 372-374, 378-379, 383-384).
InsideOf(t) ==
    {<<Str(t[i]), Str(t[i + 1])>> : i \in 1..(Len(t) - 1)}
        \cup {<<Str(t[Len(t)]), Str(t[1])>>}

\* Lines 367-386: the transitions one edge stands for.
ExpandEdge(e) ==
    IF IsTuple(e[1]) /\ IsTuple(e[2])
    THEN {<<Str(e[1][i]), Str(e[2][j])>> : i \in DOMAIN e[1], j \in DOMAIN e[2]}
            \cup InsideOf(e[1]) \cup InsideOf(e[2])
    ELSE IF IsTuple(e[1])
    THEN {<<Str(e[1][i]), e[2]>> : i \in DOMAIN e[1]} \cup InsideOf(e[1])
    ELSE IF IsTuple(e[2])
    THEN {<<e[1], Str(e[2][j])>> : j \in DOMAIN e[2]} \cup InsideOf(e[2])
    ELSE {e}

\* edges1 (line 387).
ExpandedEdges(E) == UNION {ExpandEdge(e) : e \in DOMAIN E}

\* Lines 391-395: the losses of one trace.
TraceLosses(log, T, edges1, log_trace) ==
    LET missing == {i \in 1..(Len(log_trace) - 1) :
                       <<log_trace[i], log_trace[i + 1]>> \notin edges1}
    IN RAdd(RAdd(loss(log, T, START, log_trace[1]),
                 RSum(missing, [i \in missing |->
                                   loss(log, T, log_trace[i], log_trace[i + 1])])),
            loss(log, T, log_trace[Len(log_trace)], END))

\* Graph.fitness with its default T and ADS (lines 332-398).
fitness(log, E) ==
    LET T == TransitionTable(log)
        edges1 == ExpandedEdges(E)
    IN RAdd(RSum(DOMAIN log,
                 [c \in DOMAIN log |-> TraceLosses(log, T, edges1, log[c])]),
            RSum(edges1, [e \in edges1 |-> loss(log, T, e[1], e[2])]))

\* ------------------------------------------- specification: the scores

\* Most events in a log whose scores are taken.
ScoreMaxEvents == 4

\* The weights alpha and beta explored, as rationals in [0, 1]; (1/10, 1)
\* are the defaults of replayability_score.
Weights == {Rat(0, 1), Rat(1, 10), Rat(1, 2), Rat(1, 1)}

\* The graphs explored for the scores: as for the cycles, and with any
\* transitions between the retained activities, in the log or not.
InitScore ==
    /\ flat_log \in LogsWithin(MaxCases, ScoreMaxEvents) \ {<<>>}
    /\ \E T \in {TransitionTable(flat_log)}, N \in Lists(Activities(flat_log)) :
         \E inner \in SUBSET (Range(N) \X Range(N)) :
            /\ nodes = NodesDict(flat_log, T, N)
            /\ edges = EdgesDict(T, Transitions(N, T, inner))
    /\ call = <<"init">>
    /\ ret = <<>>
    /\ locals = <<>>
    /\ oracle = <<>>

CallReplayabilityScore ==
    /\ call = <<"init">>
    /\ \E alpha \in Weights, beta \in Weights :
          /\ call' = <<"replayability_score", alpha, beta>>
          /\ ret' = replayability_score(flat_log, nodes, edges, alpha, beta)
    /\ UNCHANGED <<flat_log, nodes, edges, locals, oracle>>

CallFitness ==
    /\ call = <<"init">>
    /\ call' = <<"fitness">>
    /\ ret' = fitness(flat_log, edges)
    /\ UNCHANGED <<flat_log, nodes, edges, locals, oracle>>

NextScore == CallReplayabilityScore \/ CallFitness

SpecScore == InitScore /\ [][NextScore]_vars

\* The model replays the log perfectly: every transition implied by every
\* trace, the virtual ones included, is an edge of the model, and every edge
\* of the model is observed in the log.
PerfectReplay == DOMAIN edges = DOMAIN TransitionTable(flat_log)

\* C1: fitness is non-negative for every non-empty log and model, and is
\* exactly 0 when the model replays the log perfectly.
C1_FitnessZeroWhenPerfect ==
    call = <<"fitness">> =>
        /\ RLe(Rat(0, 1), ret)
        /\ PerfectReplay => ret = Rat(0, 1)

\* C5: replayability_score is in [0, 1] for every log with at least one case
\* and non-empty traces, every model and all weights alpha, beta in [0, 1].
C5_ScoreInUnitInterval ==
    call[1] = "replayability_score" =>
        RLe(Rat(0, 1), ret) /\ RLe(ret, Rat(1, 1))

\* The score is strictly inside the interval, with both penalties at work:
\* some trace has a skipped event and a forced transition.
C5_Witness ==
    /\ call[1] = "replayability_score"
    /\ call[2] = Rat(1, 1) /\ call[3] = Rat(1, 1)
    /\ ret # Rat(0, 1) /\ ret # Rat(1, 1)
    /\ \E c \in DOMAIN flat_log :
          LET m == FirstReplayed(nodes, edges, flat_log[c], 1)
              st == ReplayFrom(nodes, edges, flat_log[c],
                               [z |-> 1, delta |-> 0, phi |-> 0,
                                actual_node |-> flat_log[c][IF m = 0 THEN 1 ELSE m]],
                               m + 1)
          IN m # 0 /\ st.delta = 1 /\ st.phi > 0

\* The replay of a trace as stated.  Retained: the positions whose event is a
\* retained node.  Position[i]: the model position after the event at i.
Retained(N, trace) == {i \in DOMAIN trace : trace[i] \in KeySet(N)}

FirstRetained(N, trace) ==
    CHOOSE m \in Retained(N, trace) : \A i \in Retained(N, trace) : m <= i

Position(N, E, trace) ==
    LET m == FirstRetained(N, trace)
        pos[i \in m..Len(trace)] ==
            IF i = m THEN trace[m]
            ELSE IF i \in Retained(N, trace) /\ <<pos[i - 1], trace[i]>> \in DOMAIN E
                 THEN trace[i]
                 ELSE pos[i - 1]
    IN pos

Forced(N, E, trace) ==
    {i \in Retained(N, trace) :
        /\ i > FirstRetained(N, trace)
        /\ <<Position(N, E, trace)[i - 1], trace[i]>> \notin DOMAIN E}

StatedTraceScore(N, E, trace, alpha, beta) ==
    IF Retained(N, trace) = {} THEN Rat(0, 1)
    ELSE LET m == FirstRetained(N, trace)
             z == Cardinality(Retained(N, trace))
             delta == IF \E i \in (m + 1)..Len(trace) : i \notin Retained(N, trace)
                      THEN 1 ELSE 0
             phi == Cardinality(Forced(N, E, trace))
             len == Len(trace)
         IN RAbs(Rat(z * alpha[2] * beta[2] - alpha[1] * delta * len * beta[2]
                        - beta[1] * phi * alpha[2],
                     len * alpha[2] * beta[2]))

FullyReplayed(N, E, trace) ==
    /\ \A i \in DOMAIN trace : trace[i] \in KeySet(N)
    /\ \A i \in 1..(Len(trace) - 1) : <<trace[i], trace[i + 1]>> \in DOMAIN E

\* C6: the replay of every trace follows the stated semantics: the score is
\* 0 if no event is a retained node; otherwise z counts the retained events
\* from the first one on, the position advances to a retained event only
\* over a retained edge and phi counts the others (the position staying), delta
\* is 1 iff an event after the start is not retained, and the score is
\* |z/len - alpha*delta - beta*phi/len|; a trace all of whose events are
\* retained and all of whose consecutive pairs are edges scores exactly 1.
C6_ReplaySemantics ==
    call[1] = "replayability_score" =>
        \A c \in DOMAIN flat_log :
            LET score == trace_replayability_score(nodes, edges, flat_log[c],
                                                   call[2], call[3])
            IN /\ score = StatedTraceScore(nodes, edges, flat_log[c], call[2], call[3])
               /\ FullyReplayed(nodes, edges, flat_log[c]) => score = Rat(1, 1)

\* A trace with a forced transition after which the next check is made from
\* the old position: the transition from the old position is an edge while
\* the one from the event just before is not.
C6_Witness ==
    /\ call[1] = "replayability_score"
    /\ \E c \in DOMAIN flat_log :
          /\ Retained(nodes, flat_log[c]) # {}
          /\ \E i \in Forced(nodes, edges, flat_log[c]) :
                /\ i + 1 \in Retained(nodes, flat_log[c])
                /\ Position(nodes, edges, flat_log[c])[i] # flat_log[c][i]
                /\ <<Position(nodes, edges, flat_log[c])[i], flat_log[c][i + 1]>>
                      \in DOMAIN edges
                /\ <<flat_log[c][i], flat_log[c][i + 1]>> \notin DOMAIN edges


\* ----------------------------------------------------------- Graph.update

\* None, the value of self.nodes and self.edges of a new Graph (lines
\* 16-17): the empty dict, which update never leaves for a non-empty log.
IsNone(d) == DOMAIN d = {}

\* The activities of a log in the order of their first occurrence.
RECURSIVE Dedupe(_, _)
Dedupe(seq, seen) ==
    IF seq = <<>> THEN <<>>
    ELSE IF Head(seq) \in seen THEN Dedupe(Tail(seq), seen)
    ELSE <<Head(seq)>> \o Dedupe(Tail(seq), seen \cup {Head(seq)})

RECURSIVE Flatten(_, _)
Flatten(log, c) == IF c > Len(log) THEN <<>> ELSE log[c] \o Flatten(log, c + 1)

FirstSeen(log) == Dedupe(Flatten(log, 1), {})

\* The order in which node_significance(log) lists the activities: the
\* labels in the order the oracle fixes, then the meta-states in the order
\* of their first occurrence.
NodeOrder(log, order) ==
    LET InLog(a) == a \in Activities(log)
    IN SelectSeq(order, InLog) \o SelectSeq(FirstSeen(log), IsTuple)

\* node_significance(log)[a] * len(log.cases): the cases a occurs in.
node_significance(log) == [a \in Activities(log) |-> CasesWith(log, a)]

Max(S) == CHOOSE m \in S : \A x \in S : x <= m

Min(S) == CHOOSE m \in S : \A x \in S : m <= x

\* Lines 56-57: S_norm[a] >= 1 - activity_rate / 100, S_norm being the
\* min-max normalization of S (all 1 when every value is the same).
IsRetained(S, a, activity_rate) ==
    LET hi == Max({S[b] : b \in DOMAIN S})
        lo == Min({S[b] : b \in DOMAIN S})
    IN IF hi = lo THEN 100 >= 100 - activity_rate
       ELSE 100 * (S[a] - lo) >= (100 - activity_rate) * (hi - lo)

\* The early exit with the self-loops left out.
AllTransitions_noloops(activities, T) ==
    {t \in DOMAIN T : /\ t[1] \in Range(activities) \cup {START, END}
                      /\ t[2] \in Range(activities) \cup {START, END}
                      /\ t[1] # t[2]}

\* Lines 78-80: with path_rate = 100, every transition of T between the
\* retained activities, 'start' and 'end'.
AllTransitions(activities, T) ==
    {t \in DOMAIN T : /\ t[1] \in Range(activities) \cup {START, END}
                      /\ t[2] \in Range(activities) \cup {START, END}}

\* Lines 82-88 (conflict_resolution, edge_filtering and the self-loops): the
\* transitions the filters keep below path_rate 100.  Between two labels the
\* oracle says which are kept; the others are kept.
FilteredTransitions(activities, T, kept) ==
    {t \in AllTransitions(activities, T) :
        \/ t[1] = START \/ t[2] = END
        \/ IsTuple(t[1]) \/ IsTuple(t[2])
        \/ t \in kept}

\* The nodes a set of transitions reaches from the nodes in S.
RECURSIVE ReachableFrom(_, _)
ReachableFrom(S, transitions) ==
    LET more == S \cup {t[2] : t \in {u \in transitions : u[1] \in S}}
    IN IF more = S THEN S ELSE ReachableFrom(more, transitions)

Inverse(transitions) == {<<t[2], t[1]>> : t \in transitions}

Unreached(activities, transitions) ==
    Range(activities) \ ReachableFrom({START}, transitions)

Unending(activities, transitions) ==
    Range(activities) \ ReachableFrom({END}, Inverse(transitions))

\* check_feasibility (line 92): nothing to do when every retained activity
\* is reached from 'start' and reaches 'end'; otherwise it reconnects the
\* activity (here: to 'start' or 'end' itself) or fails, as the oracle says.
\* The result is the transitions list after the call, or the failure.
check_feasibility(activities, transitions, repair) ==
    IF Unreached(activities, transitions) = {} /\ Unending(activities, transitions) = {}
    THEN [err |-> "", transitions |-> transitions]
    ELSE IF repair = "fail"
    THEN [err |-> "InfeasibleModel", transitions |-> transitions]
    ELSE [err |-> "",
          transitions |-> transitions
              \cup {<<START, a>> : a \in Unreached(activities, transitions)}
              \cup {<<a, END>> : a \in Unending(activities, transitions)}]

\* Lines 76-88.
SelectTransitions(activities, T, path_rate, kept) ==
    IF path_rate = 100 THEN AllTransitions(activities, T)
    ELSE FilteredTransitions(activities, T, kept)

\* Graph.update (lines 54-102) with node significance S (the cases of each
\* activity): the error raised, or the nodes and edges assigned.
update(log, S, activity_rate, path_rate, orc) ==
    LET Keep(a) == IsRetained(S, a, activity_rate)
        activities == SelectSeq(NodeOrder(log, orc.order), Keep)
        T == TransitionTable(log)
        checked == check_feasibility(activities,
                       SelectTransitions(activities, T, path_rate, orc.kept),
                       orc.repair)
    IN IF checked.err # ""
       THEN [err |-> checked.err, nodes |-> <<>>, edges |-> EmptyDict]
       ELSE [err |-> "",
             nodes |-> [i \in DOMAIN activities |->
                          <<activities[i],
                            <<NodeValue(log, T, activities[i])[1], S[activities[i]]>>>>],
             edges |-> EdgesDict(T, checked.transitions)]

\* The oracles explored for a log: an order of the labels, the transitions
\* between labels the edge filters keep, and what check_feasibility does
\* with a disconnected activity.
Oracles(log) ==
    {[order |-> o, kept |-> k, repair |-> r] :
        o \in {l \in Lists(Activities(log)) : Range(l) = Activities(log)},
        k \in SUBSET InnerTransitions(FirstSeen(log), TransitionTable(log)),
        r \in {"fail", "connect"}}

\* The activity and path rates explored.
Rates == {0, 100}


\* ------------------------------------------------------ Graph.find_states

\* A cycle (a tuple of labels) as the activity it becomes.
MetaState(cycle) == [i \in DOMAIN cycle |-> cycle[i][1]]

\* Lines 329-330: the cycles longer than 1 whose case frequency over the
\* number of cases is at least cycle_rel, in dict order.
find_states(log, cycles, cycle_rel) ==
    LET Significant(item) ==
            /\ Len(item[1]) > 1
            /\ item[2][2] * cycle_rel[2] >= cycle_rel[1] * Cardinality(Cases(log))
    IN Keys(SelectSeq(cycles, Significant))

\* ------------------------------------------------------- Graph.aggregate

\* reconstruct_log: every occurrence of a meta-state's activity sequence in
\* a trace, read from the left, becomes the one activity that is the tuple.
MatchAt(trace, SC, i) ==
    {k \in DOMAIN SC :
        /\ i + Len(SC[k]) - 1 <= Len(trace)
        /\ SubSeq(trace, i, i + Len(SC[k]) - 1) = SC[k]}

RECURSIVE ReconstructTrace(_, _, _)
ReconstructTrace(trace, SC, i) ==
    IF i > Len(trace) THEN <<>>
    ELSE IF MatchAt(trace, SC, i) = {}
    THEN <<trace[i]>> \o ReconstructTrace(trace, SC, i + 1)
    ELSE LET k == Min(MatchAt(trace, SC, i))
         IN <<MetaState(SC[k])>> \o ReconstructTrace(trace, SC, i + Len(SC[k]))

reconstruct_log(log, SC) == [c \in DOMAIN log |-> ReconstructTrace(log[c], SC, 1)]

\* add_frq: a meta-state node gains the frequencies that its constituent
\* activities had in the reference graph.
add_frq(N, reference) ==
    [i \in DOMAIN N |->
        IF IsTuple(N[i][1])
        THEN <<N[i][1],
               <<N[i][2][1]
                    + SumOver({k \in DOMAIN reference :
                                  \E j \in DOMAIN N[i][1] :
                                      reference[k][1] = Str(N[i][1][j])},
                              [k \in DOMAIN reference |-> reference[k][2][1]]),
                 N[i][2][2]>>>>
        ELSE N[i]]

Unchanged(err, N, E) == [err |-> err, nodes |-> N, edges |-> E]

\* Lines 195-205: the branch taken once the parameters are accepted.
AggregateBranch(log_agg, N, E, activity_rate, path_rate, agg_type, orc) ==
    IF agg_type = "inner"
    THEN LET first == update(log_agg, node_significance(log_agg), 100, 0, orc)
             second == update(log_agg, node_significance(log_agg),
                              activity_rate, path_rate, orc)
         IN IF first.err # "" THEN Unchanged(first.err, N, E)
            ELSE IF second.err # "" THEN Unchanged(second.err, first.nodes, first.edges)
            ELSE [err |-> "", nodes |-> add_frq(second.nodes, first.nodes),
                  edges |-> second.edges]
    ELSE LET only == update(log_agg, node_significance(log_agg),
                            activity_rate, path_rate, orc)
         IN IF only.err # "" THEN Unchanged(only.err, N, E) ELSE only

\* Graph.aggregate (lines 173-205): the error raised, if any, and
\* self.nodes and self.edges when the call ends.  On a new Graph find_cycles
\* iterates over None (lines 258-262); find_states comes before the checks
\* of agg_type and heuristic (lines 184, 191-194).
aggregate(log, N, E, activity_rate, path_rate, agg_type, heuristic, pre_traverse, ordered, cycle_rel, ordered_nodes, orc) ==
    IF IsNone(N) THEN Unchanged("TypeError", N, E)
    ELSE LET found == find_cycles(log, N, E, pre_traverse, ordered, ordered_nodes)
             log_agg == reconstruct_log(log, find_states(log, found.cycles, cycle_rel))
         IN IF found.err # "" THEN Unchanged(found.err, N, E)
            ELSE IF agg_type \notin {"outer", "inner"}
            THEN Unchanged("ValueError: Invalid aggregation type", N, E)
            ELSE IF heuristic \notin {"all", "frequent"}
            THEN Unchanged("ValueError: Invalid heuristic", N, E)
            ELSE AggregateBranch(log_agg, N, E, activity_rate, path_rate, agg_type, orc)

\* ------------------------------------ specification: update and aggregate

\* Most events in a log a graph is built from.
GraphMaxEvents == 3

AggTypes == {"outer", "inner", "middle"}

Heuristics == {"all", "frequent", "rare"}

\* The (activity_rate, path_rate) aggregate is called with.
AggRates == {<<100, 100>>, <<0, 0>>}

InitGraph ==
    /\ flat_log \in LogsWithin(MaxCases, GraphMaxEvents) \ {<<>>}
    /\ nodes = <<>>
    /\ edges = EmptyDict
    /\ call = <<"init">>
    /\ ret = <<>>
    /\ locals = <<>>
    /\ oracle \in Oracles(flat_log)

CallUpdate ==
    /\ call = <<"init">>
    /\ \E activity_rate \in Rates, path_rate \in Rates :
        \E r \in {update(flat_log, node_significance(flat_log),
                         activity_rate, path_rate, oracle)} :
          /\ call' = <<"update", activity_rate, path_rate>>
          /\ ret' = [err |-> r.err]
          /\ nodes' = IF r.err = "" THEN r.nodes ELSE nodes
          /\ edges' = IF r.err = "" THEN r.edges ELSE edges
    /\ UNCHANGED <<flat_log, locals, oracle>>

CallAggregate ==
    /\ call[1] # "aggregate"
    /\ \E agg_type \in AggTypes, heuristic \in Heuristics,
          pre_traverse \in BOOLEAN, ordered \in BOOLEAN, rates \in AggRates :
        \E ordered_nodes \in (IF pre_traverse /\ ~IsNone(nodes)
                              THEN find_nodes_order(edges) ELSE {<<>>}) :
          \E r \in {aggregate(flat_log, nodes, edges, rates[1], rates[2],
                              agg_type, heuristic, pre_traverse, ordered,
                              Rat(1, 2), ordered_nodes, oracle)} :
             /\ call' = <<"aggregate", agg_type, heuristic>>
             /\ ret' = [err |-> r.err]
             /\ nodes' = r.nodes
             /\ edges' = r.edges
    /\ UNCHANGED <<flat_log, locals, oracle>>

NextGraph == CallUpdate \/ CallAggregate

SpecGraph == InitGraph /\ [][NextGraph]_vars


\* C7: after update with path_rate = 100 (and any activity_rate for which it
\* completes), the edges contain every transition (a,b) of the transition
\* table whose endpoints both lie in the retained activities extended with
\* 'start' and 'end', each annotated with its table value T[a][b].
C7_AllTransitionsRetained ==
    (call[1] = "update" /\ call[3] = 100 /\ ret.err = "") =>
        \A t \in DOMAIN TransitionTable(flat_log) :
            (/\ t[1] \in KeySet(nodes) \cup {START, END}
             /\ t[2] \in KeySet(nodes) \cup {START, END})
            => /\ t \in DOMAIN edges
               /\ edges[t] = TransitionTable(flat_log)[t]

\* update completes with path_rate = 100 and an activity filtered out: the
\* transitions of the log from 'start' to a retained activity and from one
\* to 'end' are edges, those of the other activity are not.
C7_Witness ==
    /\ call = <<"update", 0, 100>> /\ ret.err = ""
    /\ KeySet(nodes) # Activities(flat_log)
    /\ \E t \in DOMAIN edges : t[1] = START /\ edges[t][1] > 1
    /\ \E t \in DOMAIN edges : t[2] = END /\ edges[t][1] > 0
    /\ \E t \in DOMAIN TransitionTable(flat_log) : t \notin DOMAIN edges

InvalidParameters(agg_type, heuristic) ==
    agg_type \notin {"outer", "inner"} \/ heuristic \notin {"all", "frequent"}

\* C9: aggregate called with an agg_type other than 'outer'/'inner' or a
\* heuristic other than 'all'/'frequent' fails with an invalid-parameter
\* error and leaves the graph's nodes and edges and the caller's log as they
\* were, also when only the heuristic is invalid.
C9_InvalidParameterRejected ==
    [][(call'[1] = "aggregate" /\ InvalidParameters(call'[2], call'[3])) =>
          /\ ret'.err \in {"ValueError: Invalid aggregation type",
                           "ValueError: Invalid heuristic"}
          /\ nodes' = nodes
          /\ edges' = edges
          /\ flat_log' = flat_log]_vars


\* ------------------------------------------------------- Graph.optimize

\* p / q for a rational q > 0.
RDiv(p, q) == Rat(p[1] * q[2], p[2] * q[1])

\* What Q (lines 137-146) returns after its update: the replayability of the
\* log on the graph and the average degree m / n.
Q(log, N, E) ==
    LET n == Len(N) + 2
        m == Cardinality(DOMAIN E)
        activities == Cardinality(Activities(log))
    IN <<replayability_score(log, N, E, Rat(1, 2 * activities), Rat(1, activities)),
         Rat(m, n)>>

\* Line 167: the quality of the terms (repl, compl) of a grid point.
Quality(terms, lambd, max_compl) ==
    RAdd(RMul(RSub(Rat(1, 1), lambd), terms[1]),
         RMul(lambd, RSub(Rat(1, 1), RDiv(terms[2], max_compl))))

\* A later key of equal value replaces the best one.
Exceeds_orEquals(v, best) == RLe(best, v)

\* max (line 168) replaces the best key only by one of greater value.
Exceeds(v, best) == ~RLe(v, best)

\* Line 168: max(Q_val, key=...), scanning the keys in the dict's order.
RECURSIVE ArgMaxFrom(_, _, _)
ArgMaxFrom(d, i, best) ==
    IF i > Len(d) THEN d[best][1]
    ELSE ArgMaxFrom(d, i + 1, IF Exceeds(d[i][2], d[best][2]) THEN i ELSE best)

ArgMax(d) == ArgMaxFrom(d, 2, 1)

\* The most events of a log the optimizer is run on.
OptMaxEvents == 4

\* The lists of grid points (step) and the coefficients lambd explored.
Grids == {<<0, 100>>, <<100, 50, 0>>}

Lambdas == {Rat(0, 1), Rat(1, 2), Rat(1, 1)}

InitOpt ==
    /\ flat_log \in LogsWithin(MaxCases, OptMaxEvents) \ {<<>>}
    /\ nodes = <<>>
    /\ edges = EmptyDict
    /\ call = <<"init">>
    /\ ret = <<>>
    /\ locals = <<>>
    /\ oracle \in Oracles(flat_log)

\* Lines 148-155: optimize is entered with an empty Q_val.
CallOptimize ==
    /\ call = <<"init">>
    /\ \E lambd \in Lambdas, grid \in Grids :
          /\ call' = <<"optimize", lambd, grid>>
          /\ locals' = [pc |-> "grid", a |-> 1, p |-> 1, Q_val |-> <<>>,
                        max_compl |-> Rat(0, 1)]
    /\ UNCHANGED <<flat_log, nodes, edges, ret, oracle>>

\* Lines 157-159: Q_val[(a,p)] = Q(a, p, lambd) for the next grid point; an
\* error of update ends optimize.
GridPoint ==
    /\ call[1] = "optimize" /\ locals.pc = "grid"
    /\ LET grid == call[3]
           theta == <<grid[locals.a], grid[locals.p]>>
           last == locals.a = Len(grid) /\ locals.p = Len(grid)
       IN \E r \in {update(flat_log, node_significance(flat_log),
                           theta[1], theta[2], oracle)} :
            IF r.err # ""
            THEN /\ ret' = [err |-> r.err]
                 /\ locals' = [locals EXCEPT !.pc = "raised"]
                 /\ UNCHANGED <<nodes, edges>>
            ELSE /\ nodes' = r.nodes
                 /\ edges' = r.edges
                 /\ locals' = [locals EXCEPT
                        !.Q_val = Put(@, theta, Q(flat_log, r.nodes, r.edges)),
                        !.p = IF @ < Len(grid) THEN @ + 1 ELSE 1,
                        !.a = IF locals.p < Len(grid) THEN @ ELSE @ + 1,
                        !.pc = IF last THEN "reference" ELSE "grid"]
                 /\ UNCHANGED ret
    /\ UNCHANGED <<flat_log, call, oracle>>

\* Line 165: max_compl = Q(100, 100, lambd)[1].
Reference ==
    /\ call[1] = "optimize" /\ locals.pc = "reference"
    /\ \E r \in {update(flat_log, node_significance(flat_log), 100, 100, oracle)} :
         IF r.err # ""
         THEN /\ ret' = [err |-> r.err]
              /\ locals' = [locals EXCEPT !.pc = "raised"]
              /\ UNCHANGED <<nodes, edges>>
         ELSE /\ nodes' = r.nodes
              /\ edges' = r.edges
              /\ locals' = [locals EXCEPT
                     !.max_compl = Q(flat_log, r.nodes, r.edges)[2],
                     !.pc = "select"]
              /\ UNCHANGED ret
    /\ UNCHANGED <<flat_log, call, oracle>>

\* Lines 166-171: the qualities, the optimum, the update at the optimum and
\* the rates returned.
Select ==
    /\ call[1] = "optimize" /\ locals.pc = "select"
    /\ \E Q_val \in {[i \in DOMAIN locals.Q_val |->
                        <<locals.Q_val[i][1],
                          Quality(locals.Q_val[i][2], call[2], locals.max_compl)>>]} :
         \E Q_opt \in {ArgMax(Q_val)} :
           \E r \in {update(flat_log, node_significance(flat_log),
                            Q_opt[1], Q_opt[2], oracle)} :
             IF r.err # ""
             THEN /\ ret' = [err |-> r.err]
                  /\ locals' = [locals EXCEPT !.Q_val = Q_val, !.pc = "raised"]
                  /\ UNCHANGED <<nodes, edges>>
             ELSE /\ nodes' = r.nodes
                  /\ edges' = r.edges
                  /\ ret' = [err |-> "", activities |-> Q_opt[1], paths |-> Q_opt[2]]
                  /\ locals' = [locals EXCEPT !.Q_val = Q_val, !.pc = "done"]
    /\ UNCHANGED <<flat_log, call, oracle>>

NextOpt == CallOptimize \/ GridPoint \/ Reference \/ Select

SpecOpt == InitOpt /\ [][NextOpt]_vars

\* The pairs of a grid in traversal order: activity rate in the outer loop,
\* path rate in the inner loop.
GridPairs(grid) ==
    [k \in 1..(Len(grid) * Len(grid)) |->
        <<grid[((k - 1) \div Len(grid)) + 1], grid[((k - 1) % Len(grid)) + 1]>>]

\* The graph update produces at a pair of rates.
GraphAt(theta) ==
    update(flat_log, node_significance(flat_log), theta[1], theta[2], oracle)

Complexity(g) == Rat(Cardinality(DOMAIN g.edges), Len(g.nodes) + 2)

\* Q = (1-lambd)*replayability + lambd*(1 - complexity/max_complexity) of
\* the graph g, max_complexity being the complexity of the graph ref.
StatedQOf(g, ref, lambd) ==
    LET activities == Cardinality(Activities(flat_log))
        replayability == replayability_score(flat_log, g.nodes, g.edges,
                             Rat(1, 2 * activities), Rat(1, activities))
        ratio == RDiv(Complexity(g), Complexity(ref))
    IN RAdd(RMul(RSub(Rat(1, 1), lambd), replayability),
            RMul(lambd, RSub(Rat(1, 1), ratio)))

\* Q at a pair of rates, max_complexity taken at rates (100,100).
StatedQ(theta, lambd) == StatedQOf(GraphAt(theta), GraphAt(<<100, 100>>), lambd)

\* Q at the pairs k.. of a sequence of pairs, in their order.
RECURSIVE StatedQs(_, _, _, _)
StatedQs(pairs, ref, lambd, k) ==
    IF k > Len(pairs) THEN <<>>
    ELSE <<StatedQOf(GraphAt(pairs[k]), ref, lambd)>> \o StatedQs(pairs, ref, lambd, k + 1)

Returned_optimize == call[1] = "optimize" /\ locals.pc = "done"

\* C8: optimize returns the grid pair that maximizes Q over all pairs of the
\* grid, the first one in traversal order among those of maximal Q, and when
\* it returns the graph's nodes and edges are those update produces at the
\* returned pair.
C8_OptimizeReturnsFirstArgmax ==
    Returned_optimize =>
        \E pairs \in {GridPairs(call[3])}, ref \in {GraphAt(<<100, 100>>)} :
          \E q \in {StatedQs(pairs, ref, call[2], 1)} :
            \E k \in DOMAIN pairs :
               /\ ret.activities = pairs[k][1]
               /\ ret.paths = pairs[k][2]
               /\ \A j \in DOMAIN pairs : RLe(q[j], q[k])
               /\ \A j \in 1..(k - 1) : q[j] # q[k]
               /\ nodes = GraphAt(pairs[k]).nodes
               /\ edges = GraphAt(pairs[k]).edges

\* optimize returns a pair that is neither the last grid point nor (100,100),
\* tied with a later pair, and the graph differs from the graphs of the last
\* grid point and of the reference evaluation.
C8_Witness ==
    /\ Returned_optimize
    /\ LET pairs == GridPairs(call[3])
           theta == <<ret.activities, ret.paths>>
           last == pairs[Len(pairs)]
       IN /\ theta # last
          /\ theta # <<100, 100>>
          /\ last # <<100, 100>>
          /\ <<nodes, edges>> # <<GraphAt(last).nodes, GraphAt(last).edges>>
          /\ <<nodes, edges>> # <<GraphAt(<<100, 100>>).nodes, GraphAt(<<100, 100>>).edges>>
          /\ \E j, k \in DOMAIN pairs :
                /\ k < j /\ pairs[k] = theta
                /\ StatedQ(pairs[j], call[2]) = StatedQ(theta, call[2])

=============================================================================
